---- MODULE Spec2Model ----
(***************************************************************************)
(* Model of the jhcTofCam driver (Sipeed MaixSense A010 time-of-flight     *)
(* sensor): the lifecycle calls Start / Range / Done made by the consumer  *)
(* thread, the background acquisition thread main_loop, and the rotation   *)
(* of the three output buffers d0, d1, d2 through the roles fill, done     *)
(* and lock.                                                               *)
(*                                                                         *)
(* Threads take one step per shared-memory access or system call, so that  *)
(* every interleaving the scheduler can produce is a behaviour.            *)
(***************************************************************************)
EXTENDS Integers, Sequences, FiniteSets, TLC

\* ---------------------------------------------------------------- bounds

\* Number of Start calls explored (each successful one creates one thread).
MaxStart == 2

\* Number of whole packets the sensor delivers before its stream dries up:
\* in the runs of one session, and in the runs of whole lifecycles.
MaxPkt == 5
LifePkt == 3

\* Number of whole packets in the runs of the worker thread alone.
AutoPkt == 7

\* Images given to median5x5: every one-row strip of StripLen pixels, and
\* square fields of FieldSide rows.
StripLen == 6
FieldSide == 6

\* Number of 1 ms sleeps of a blocking Range call that the lifecycle and
\* session runs interleave with the other threads one by one (the polling
\* runs interleave all of them).
MaxWait == 2

\* Bytes that may precede a packet's sentinel.
MaxJunk == 3

\* Packets on a wire, and the length of a wire that does not end before
\* sync gives up.
FramePkts == 7
Endless == 100000

\* ------------------------------------------------------- program constants

\* Range: "if (wait++ > 500) return NULL".
WaitLimit == 500

\* A Start that would let only the first frame go stale.
FreshInitBad == 0 - 1

\* Start: "fresh = -2" (first 2 frames are stale).
FreshInit == 0 - 2

\* auto_range: "if (frame < 2) return".
WarmFrames == 2

\* sync: "(start > 1) && (frame > 2)".
AckFrames == 2

\* sync: "if (start++ > 20000) return 0".
SyncLimit == 20000

\* fill_raw: "read(ser, pkt + n, 10018 - n)".
PktLen == 10018

\* constructor: sat = 80, ihi = 150.
sat == 80
ihi == 150

\* constructor: vlim = 32.
vlim == 32

\* Constructor: "f0 = 0.1", in tenths, and "nv = 64.0".
DefaultF0 == 1
nv == 64

\* constructor: pct = 50, cw = 50, ch = 50.
pct == 50
cw == 50
ch == 50

NULL == "NULL"
Bufs == {"d0", "d1", "d2"}
Workers == 1 .. MaxStart

VARIABLES
  ser,      \* serial port descriptor: -1 closed, 0 open
  ok,       \* health flag: -1 uninitialised, 0 stream ended, 1 running
  run,      \* request flag read by main_loop
  hoover,   \* id of the thread created by the last pthread_create (0: none)
  dkind,    \* state of the pthread_mutex_t "data", which no code initialises
  owner,    \* thread holding "data": "none", "main" or "absorb" (a worker)
  fill, done, lock, fresh,   \* rotating buffer roles and freshness counter
  frame,    \* frame counter
  unit, pend,                \* current and requested depth step
  pkt,      \* serial number of the packet held in pkt[] (0: none yet)
  buf,      \* contents of d0, d1, d2: packet reformatted into it, and whether
            \* the reformat pass that wrote it has finished
  tx,       \* commands written to the port that "ser" designates
  npkt,     \* packets delivered by the sensor so far
  nstart,   \* Start calls made so far
  pktlim,   \* packets the sensor delivers in all (fixed by the initial state)
  startlim, \* Start calls the consumer makes in all (fixed likewise)
  scenes,   \* scenes the sensor may be looking at (fixed likewise)
  feed,     \* values << raw, median >> the frames give one pixel (likewise)
  f0,       \* tunable f0 of the temporal filter, in tenths (likewise)
  wires,    \* byte strings that may arrive up to a packet's length field
            \* (likewise)
  cpc,      \* consumer thread: position in the API call it is executing
  blk,      \* consumer thread: "block" argument of the current Range call
  wait,     \* consumer thread: local "wait" of Range
  creg,     \* consumer thread: value loaded from "done" in Range
  ret,      \* consumer thread: the call that is returning, and its value
  phase,    \* consumer thread: what its lifecycle calls have told it so far:
            \* "closed", "opening", "running", "failed" or "stopping"
  wpc,      \* worker threads: position in main_loop
  wd,       \* worker threads: local "d" of reformat (buffer being written)
  wreg,     \* worker threads: value of "fresh" loaded in swap_bufs
  wnx,      \* worker threads: next "fill" computed in swap_bufs
  goal,     \* worker threads: local "goal" of auto_range (0: not in use)
  rawpx, medpx, avgpx, varpx,   \* one pixel of raw[], med[], avg[], var[]
  outpx,    \* the same pixel of the buffer reformat writes (16 bits)
  rawimg, medimg,               \* a whole raw[] and med[] image
  vals, lowest,                 \* median5x5: histogram and cached low bins
  bot, mx, my,                  \* median5x5: locals bot, x and row number
  wire,     \* the bytes the transport delivers (fixed by the initial state)
  at,       \* number of bytes read from the transport so far
  wstart,   \* worker threads: local "start" of sync
  wn        \* worker threads: local "n" of fill_raw

vars == << ser, ok, run, hoover, dkind, owner, fill, done, lock, fresh, frame,
           unit, pend, pkt, buf, tx, npkt, nstart, pktlim, startlim, scenes,
           feed, f0, wires,
           cpc,
           blk, wait, creg, ret, phase, wpc, wd, wreg, wnx, goal,
           rawpx, medpx, avgpx, varpx, outpx, rawimg, medimg, vals, lowest,
           bot, mx, my, wire, at, wstart, wn >>

\* Groups used in UNCHANGED clauses.
rotor == << fill, done, lock, fresh >>
cloc  == << blk, wait, creg >>
wloc  == << wd, wreg, wnx, goal >>
range == << unit, pend >>
env   == << npkt, nstart, pktlim, startlim, scenes, feed, f0, wires >>
pixel == << rawpx, medpx, avgpx, varpx, outpx >>
stream == << wire, at, wstart, wn >>
image == << rawimg, medimg, vals, lowest, bot, mx, my >>

\* ---------------------------------------------------------------- helpers

\* Characters '0' + n as auto_range computes cmd[8].
DigitChar(n) ==
  CASE n = 0 -> "0" [] n = 1 -> "1" [] n = 2 -> "2" [] n = 3 -> "3"
    [] n = 4 -> "4" [] n = 5 -> "5" [] n = 6 -> "6" [] n = 7 -> "7"
    [] n = 8 -> "8" [] n = 9 -> "9" [] OTHER -> "?"

\* The 10 bytes auto_range writes: "AT+UNIT=2\r" with cmd[8] replaced.
UnitCmd(n) == "AT+UNIT=" \o DigitChar(n) \o "\r"

\* write(ser, cmd, 10): reaches the sensor only through an open descriptor.
Write(cmd) == IF ser >= 0 THEN Append(tx, cmd) ELSE tx

\* swap_bufs: choice of the next buffer to fill.
NextFill(f, l) ==
  IF f = "d0" THEN (IF l # "d1" THEN "d1" ELSE "d2")
  ELSE IF f = "d1" THEN (IF l # "d0" THEN "d0" ELSE "d2")
  ELSE (IF l # "d0" THEN "d0" ELSE "d1")

\* An auto_range that would not clamp the requested step.
AutoGoalBad(u, miss, bulk) ==
  LET g0 == (2 * u * bulk + ihi) \div (2 * ihi)
  IN  IF miss > sat /\ g0 <= u /\ u < 9 THEN u + 1 ELSE g0

\* An auto_range that would not look at the saturated fraction.
AutoGoalMild(u, miss, bulk) ==
  LET g0 == (2 * u * bulk + ihi) \div (2 * ihi)
  IN  IF g0 <= 1 THEN 1 ELSE IF g0 < 9 THEN g0 ELSE 9

\* auto_range: requested step for a scene whose ROI has "miss" percent of
\* saturated pixels and percentile bin "bulk".
AutoGoal(u, miss, bulk) ==
  LET g0 == (2 * u * bulk + ihi) \div (2 * ihi)
      g1 == IF g0 <= 1 THEN 1 ELSE IF g0 < 9 THEN g0 ELSE 9
  IN  IF miss > sat /\ g1 <= u /\ u < 9 THEN u + 1 ELSE g1

\* A scene is the central ROI of raw[]: n255 of its cw * ch pixels are
\* saturated (255), the others all have the value val < 255.
Scene(n, v) == [n255 |-> n, val |-> v]

\* auto_range: cent[b], the number of ROI pixels of value b.
Cent(sc, b) ==
  IF b = 255 THEN sc.n255
  ELSE IF b = sc.val THEN cw * ch - sc.n255 ELSE 0

\* auto_range: "miss = (int)((100.0 * cent[255]) / area + 0.5)".
Miss(sc) == (200 * Cent(sc, 255) + cw * ch) \div (2 * cw * ch)

\* auto_range: "stop = (int)(0.01 * pct * (area - cent[255]) + 0.5)".
Stop(sc) == (2 * pct * (cw * ch - Cent(sc, 255)) + 100) \div 200

\* auto_range: "sum += cent[bulk]", the sum of cent[0 .. b] for b < 255: all
\* the unsaturated pixels once b has reached val, none before.
CentSum(sc, b) == IF b >= sc.val THEN Cent(sc, sc.val) ELSE 0

\* auto_range: the bin at which "for (bulk = 0; bulk < 255; bulk++)" breaks
\* (sum >= stop), 255 when it never does.
Bulk(sc) ==
  LET hit == {b \in 0 .. 254 : CentSum(sc, b) >= Stop(sc)}
  IN  IF hit = {} THEN 255 ELSE CHOOSE b \in hit : \A c \in hit : b <= c

\* Scenes of the runs of the worker thread alone: dark, dim, in range and
\* bright, each with no saturation or with 90 % of the ROI saturated.
AutoScenes == { Scene(n, v) : n \in {0, 2250}, v \in {0, 40, 150, 254} }

\* Scenes of the lifecycle, session and polling runs: in range, and mostly
\* saturated.
Scenes == { Scene(0, 150), Scene(2250, 100) }

\* pthread_mutex_lock(&data) by thread t: a working mutex blocks until free;
\* a mutex whose bytes are not a valid mutex fails at once and excludes no
\* one; one whose bytes read as "locked" blocks for ever.
CanLock(t) == \/ dkind = "valid" /\ owner = "none"
              \/ dkind = "invalid"
Locked(t)   == IF dkind = "valid" THEN t ELSE owner
Unlocked(t) == IF dkind = "valid" THEN "none" ELSE owner

Alive(w) == wpc[w] \notin {"none", "exited"}

\* ------------------------------------------------------------------- Init

\* Runs that follow the threads leave the pixels alone.
\* Constructor: "f0 = 0.1" and "nv = 64.0"; the pixel followed is 0 on every
\* frame.
Tuned == f0 = DefaultF0 /\ feed = {<< 0, 0 >>}

\* sync: the start code 0x00 0xFF and the length 0x20 0x27 (10016).
Sentinel == << 0, 255, 32, 39 >>

\* The sensor's answer "OK\r\n" to a command.
Ack == << 79, 75, 13, 10 >>

\* Every packet comes alone or behind the answer to a command.
Wired == wires = {Sentinel, Ack \o Sentinel}

NoPixel == rawpx = 0 /\ medpx = 0 /\ avgpx = 0 /\ varpx = 0 /\ outpx = 0
NoImage ==
  /\ rawimg = << >> /\ medimg = << >>
  /\ vals = << >> /\ lowest = << >> /\ bot = 0 /\ mx = 0 /\ my = 0

\* What the transport delivers: len bytes in all, in periods of per bytes,
\* each period the bytes of head followed by bytes of value body.
Wire(h, c, p, l) == [head |-> h, body |-> c, per |-> p, len |-> l]

\* Byte number i (from 0) of a wire; -1 when a read at i returns <= 0 (end of
\* stream or time-out).
WireByte(wr, i) ==
  IF i >= wr.len THEN 0 - 1
  ELSE IF i % wr.per < Len(wr.head) THEN wr.head[(i % wr.per) + 1]
  ELSE wr.body

NoStream ==
  /\ wire = Wire(<< >>, 0, 1, 0) /\ at = 0
  /\ wstart = [w \in Workers |-> 0] /\ wn = [w \in Workers |-> 0]

\* State after the constructor jhcTofCam().  The members it leaves unset are
\* shown as zero: Start writes each of them before any thread reads it.  The
\* exception is the mutex, which nothing initialises and both threads use.
Constructed ==
  /\ ser = -1 /\ ok = -1 /\ run = 0 /\ frame = 0
  /\ hoover = 0
  /\ dkind \in {"valid", "invalid", "stuck"}
  /\ owner = "none"
  /\ fill = NULL /\ done = NULL /\ lock = NULL /\ fresh = 0
  /\ unit = 0 /\ pend = 0
  /\ pkt = 0
  /\ buf = [b \in Bufs |-> [tag |-> 0, full |-> TRUE]]
  /\ tx = << >>
  /\ npkt = 0 /\ nstart = 0
  /\ cpc = "idle" /\ blk = 0 /\ wait = 0 /\ creg = NULL
  /\ ret = [f |-> "none", v |-> 0]
  /\ phase = "closed"
  /\ wpc = [w \in Workers |-> "none"]
  /\ wd = [w \in Workers |-> NULL]
  /\ wreg = [w \in Workers |-> 0]
  /\ wnx = [w \in Workers |-> NULL]
  /\ goal = [w \in Workers |-> 0]
  /\ NoPixel /\ NoImage /\ NoStream

\* Lifecycle runs: up to MaxStart calls of Start, LifePkt packets.
Init ==
  Constructed /\ startlim = MaxStart /\ pktlim = LifePkt /\ scenes = Scenes /\ Tuned /\ Wired

\* Session runs: one call of Start, MaxPkt packets.
InitSession ==
  Constructed /\ startlim = 1 /\ pktlim = MaxPkt /\ scenes = Scenes /\ Tuned /\ Wired

\* Polling runs: one call of Start, LifePkt packets.
InitPoll ==
  Constructed /\ startlim = 1 /\ pktlim = LifePkt /\ scenes = Scenes /\ Tuned /\ Wired

\* State in which Start has returned 1 to a consumer that calls nothing
\* else, and the worker thread is at position pos of main_loop with the
\* depth step u and the frame counter f.
StartedAt(u, f, pos) ==
  /\ ser = 0 /\ ok = 1 /\ run = 1 /\ frame = f
  /\ hoover = 1
  /\ owner = "none"
  /\ fill = "d0" /\ done = NULL /\ lock = NULL /\ fresh = FreshInit
  /\ unit = u /\ pend = u
  /\ pkt = 0
  /\ buf = [b \in Bufs |-> [tag |-> 0, full |-> TRUE]]
  /\ tx = << "AT+DISP=3\r", "AT+UNIT=2\r" >>
  /\ npkt = 0 /\ nstart = 1
  /\ cpc = "idle" /\ blk = 0 /\ wait = 0 /\ creg = NULL
  /\ ret = [f |-> "none", v |-> 0]
  /\ phase = "running"
  /\ wpc = [w \in Workers |-> IF w = 1 THEN pos ELSE "none"]
  /\ wd = [w \in Workers |-> NULL]
  /\ wreg = [w \in Workers |-> 0]
  /\ wnx = [w \in Workers |-> NULL]
  /\ goal = [w \in Workers |-> 0]

\* The worker thread has not taken its first step.
Started ==
  /\ StartedAt(2, 0, "loop") /\ dkind \in {"valid", "invalid", "stuck"}
  /\ NoPixel /\ NoImage /\ NoStream

\* Runs of the worker thread alone: AutoPkt packets of every scene.
InitAuto ==
  Started /\ startlim = 1 /\ pktlim = AutoPkt /\ scenes \in {AutoScenes} \cup {{sc} : sc \in AutoScenes} /\ Tuned /\ Wired

\* ------------------------------------------------- consumer thread: Start

\* A call returns: the value is in "ret" until the caller goes on.
Returned(f, v) == [f |-> f, v |-> v]
NoCall == Returned("none", 0)

\* Start: "ok = -1".
StartCall ==
  /\ cpc = "idle" /\ nstart < startlim
  /\ nstart' = nstart + 1
  /\ ok' = -1
  /\ cpc' = "s_open"
  /\ phase' = "opening"
  /\ UNCHANGED << ser, run, hoover, dkind, owner, rotor, frame, range, pkt,
                  buf, tx, npkt, pktlim, startlim, scenes, feed, f0, wires, cloc, ret,
                  wpc,
                  wloc, pixel, image, stream >>

\* open_usb: r = -1 when open() fails (ser < 0), r = 0 when the port opens
\* but its settings cannot be read or applied, r = 1 when all succeeds.
open_usb(r) ==
  /\ ser' = IF r < 0 THEN -1 ELSE 0
  /\ tx' = << >>

StartOpen ==
  /\ cpc = "s_open"
  /\ \E r \in {-1, 0, 1} :
       /\ open_usb(r)
       /\ cpc' = IF r <= 0 THEN "s_fail" ELSE "s_disp"
  /\ UNCHANGED << ok, run, hoover, dkind, owner, rotor, frame, range, pkt,
                  buf, env, cloc, ret, wpc, wloc, phase, pixel, image, stream >>

\* Start: "return ok" after open_usb() <= 0.
StartFail ==
  /\ cpc = "s_fail"
  /\ ret' = Returned("Start", ok)
  /\ cpc' = "return"
  /\ phase' = "failed"
  /\ UNCHANGED << ser, ok, run, hoover, dkind, owner, rotor, frame, range,
                  pkt, buf, tx, env, cloc, wpc, wloc, pixel, image, stream >>

\* Start: write(ser, "AT+DISP=3\r", 10), then usleep(50000).
StartDisp ==
  /\ cpc = "s_disp"
  /\ tx' = Write("AT+DISP=3\r")
  /\ cpc' = "s_unit"
  /\ UNCHANGED << ser, ok, run, hoover, dkind, owner, rotor, frame, range,
                  pkt, buf, env, cloc, ret, wpc, wloc, phase, pixel, image, stream >>

\* Start: write(ser, "AT+UNIT=2\r", 10); unit = 2; pend = 2.
StartUnit ==
  /\ cpc = "s_unit"
  /\ tx' = Write("AT+UNIT=2\r")
  /\ unit' = 2 /\ pend' = 2
  /\ cpc' = "s_fill"
  /\ UNCHANGED << ser, ok, run, hoover, dkind, owner, rotor, frame, pkt,
                  buf, env, cloc, ret, wpc, wloc, phase, pixel, image, stream >>

\* Start: "fill = d0" (no mutex taken).
StartFill ==
  /\ cpc = "s_fill"
  /\ fill' = "d0"
  /\ cpc' = "s_null"
  /\ UNCHANGED << ser, ok, run, hoover, dkind, owner, done, lock, fresh,
                  frame, range, pkt, buf, tx, env, cloc, ret, wpc, wloc,
                  phase, pixel, image, stream >>

\* Start: "done = NULL; lock = NULL".
StartNull ==
  /\ cpc = "s_null"
  /\ done' = NULL /\ lock' = NULL
  /\ cpc' = "s_fresh"
  /\ UNCHANGED << ser, ok, run, hoover, dkind, owner, fill, fresh, frame,
                  range, pkt, buf, tx, env, cloc, ret, wpc, wloc, phase,
                  pixel, image, stream >>

\* Start: "fresh = -2".
StartFresh ==
  /\ cpc = "s_fresh"
  /\ fresh' = FreshInit
  /\ cpc' = "s_run"
  /\ UNCHANGED << ser, ok, run, hoover, dkind, owner, fill, done, lock,
                  frame, range, pkt, buf, tx, env, cloc, ret, wpc, wloc,
                  phase, pixel, image, stream >>

\* Start: "run = 1; pthread_create(&hoover, NULL, absorb, this)".
StartRun ==
  /\ cpc = "s_run"
  /\ run' = 1
  /\ hoover' = nstart
  /\ wpc' = [wpc EXCEPT ![nstart] = "loop"]
  /\ cpc' = "s_ok"
  /\ UNCHANGED << ser, ok, dkind, owner, rotor, frame, range, pkt, buf, tx,
                  env, cloc, ret, wloc, phase, pixel, image, stream >>

\* Start: "ok = 1".
StartOk ==
  /\ cpc = "s_ok"
  /\ ok' = 1
  /\ cpc' = "s_ret"
  /\ UNCHANGED << ser, run, hoover, dkind, owner, rotor, frame, range, pkt,
                  buf, tx, env, cloc, ret, wpc, wloc, phase, pixel, image, stream >>

\* Start: "return ok": the value just stored, or the member read again.
StartRet ==
  /\ cpc = "s_ret"
  /\ \E v \in {1, ok} :
       /\ ret' = Returned("Start", v)
       /\ phase' = IF v >= 1 THEN "running" ELSE "failed"
  /\ cpc' = "return"
  /\ UNCHANGED << ser, ok, run, hoover, dkind, owner, rotor, frame, range,
                  pkt, buf, tx, env, cloc, wpc, wloc, pixel, image, stream >>

Start == \/ StartCall \/ StartOpen \/ StartFail \/ StartDisp \/ StartUnit
         \/ StartFill \/ StartNull \/ StartFresh \/ StartRun \/ StartOk
         \/ StartRet

\* ------------------------------------------------- consumer thread: Range

\* Range(block): "if (ok <= 0) return NULL".
RangeCall ==
  /\ cpc = "idle"
  /\ \E b \in {0, 1} : blk' = b
  /\ wait' = 0
  /\ IF ok <= 0
       THEN /\ ret' = Returned("Range", NULL)
            /\ cpc' = "return"
       ELSE /\ ret' = ret
            /\ cpc' = "r_poll"
  /\ UNCHANGED << ser, ok, run, hoover, dkind, owner, rotor, frame, range,
                  pkt, buf, tx, env, creg, wpc, wloc, phase, pixel, image, stream >>

\* A Range whose non-blocking calls would sleep like the blocking ones.
RangePollBad(n) ==
  /\ cpc = "r_poll"
  /\ IF fresh > 0
       THEN /\ cpc' = "r_lock"
            /\ UNCHANGED << wait, ret >>
       ELSE IF blk < 0 \/ wait > WaitLimit
         THEN /\ ret' = Returned("Range", NULL)
              /\ cpc' = "return"
              /\ wait' = wait
         ELSE /\ wait' = IF wait < n THEN wait + 1 ELSE WaitLimit + 1
              /\ UNCHANGED << cpc, ret >>
  /\ UNCHANGED << ser, ok, run, hoover, dkind, owner, rotor, frame, range,
                  pkt, buf, tx, env, blk, creg, wpc, wloc, phase,
                  pixel, image, stream >>

\* Range: one evaluation of "while (fresh <= 0)" and of the loop body,
\* usleep(1000) included.  The first n sleeps are interleaved with the other
\* threads one by one; a call that has slept n times sleeps on to its time-out
\* with no other thread taking a step in between.
RangePoll(n) ==
  /\ cpc = "r_poll"
  /\ IF fresh > 0
       THEN /\ cpc' = "r_lock"
            /\ UNCHANGED << wait, ret >>
       ELSE IF blk <= 0 \/ wait > WaitLimit
         THEN /\ ret' = Returned("Range", NULL)
              /\ cpc' = "return"
              /\ wait' = wait
         ELSE /\ wait' = IF wait < n THEN wait + 1 ELSE WaitLimit + 1
              /\ UNCHANGED << cpc, ret >>
  /\ UNCHANGED << ser, ok, run, hoover, dkind, owner, rotor, frame, range,
                  pkt, buf, tx, env, blk, creg, wpc, wloc, phase,
                  pixel, image, stream >>

\* Range: pthread_mutex_lock(&data).
RangeLock ==
  /\ cpc = "r_lock"
  /\ CanLock("main")
  /\ owner' = Locked("main")
  /\ cpc' = "r_load"
  /\ UNCHANGED << ser, ok, run, hoover, dkind, rotor, frame, range, pkt,
                  buf, tx, env, cloc, ret, wpc, wloc, phase, pixel, image, stream >>

\* Range: "lock = done", the load ...
RangeLoad ==
  /\ cpc = "r_load"
  /\ creg' = done
  /\ cpc' = "r_store"
  /\ UNCHANGED << ser, ok, run, hoover, dkind, owner, rotor, frame, range,
                  pkt, buf, tx, env, blk, wait, ret, wpc, wloc, phase,
                  pixel, image, stream >>

\* ... and the store.
RangeStore ==
  /\ cpc = "r_store"
  /\ lock' = creg
  /\ creg' = NULL
  /\ cpc' = "r_fresh"
  /\ UNCHANGED << ser, ok, run, hoover, dkind, owner, fill, done, fresh,
                  frame, range, pkt, buf, tx, env, blk, wait, ret, wpc,
                  wloc, phase, pixel, image, stream >>

\* Range: "fresh = 0".
RangeFresh ==
  /\ cpc = "r_fresh"
  /\ fresh' = 0
  /\ cpc' = "r_unlock"
  /\ UNCHANGED << ser, ok, run, hoover, dkind, owner, fill, done, lock,
                  frame, range, pkt, buf, tx, env, cloc, ret, wpc, wloc,
                  phase, pixel, image, stream >>

\* Range: pthread_mutex_unlock(&data).
RangeUnlock ==
  /\ cpc = "r_unlock"
  /\ owner' = Unlocked("main")
  /\ cpc' = "r_ret"
  /\ UNCHANGED << ser, ok, run, hoover, dkind, rotor, frame, range, pkt,
                  buf, tx, env, cloc, ret, wpc, wloc, phase, pixel, image, stream >>

\* Range: "return lock".
RangeRet ==
  /\ cpc = "r_ret"
  /\ ret' = Returned("Range", lock)
  /\ cpc' = "return"
  /\ UNCHANGED << ser, ok, run, hoover, dkind, owner, rotor, frame, range,
                  pkt, buf, tx, env, cloc, wpc, wloc, phase, pixel, image, stream >>

Range(n) == \/ RangeCall \/ RangePoll(n) \/ RangeLock \/ RangeLoad \/ RangeStore
         \/ RangeFresh \/ RangeUnlock \/ RangeRet

\* -------------------------------------------------- consumer thread: Done

\* A Done that would join the worker without clearing run.
DoneCallBad ==
  /\ cpc = "idle"
  /\ run' = run
  /\ cpc' = IF run > 0 THEN "d_join" ELSE "d_ser"
  /\ phase' = IF phase = "running" THEN "stopping" ELSE phase
  /\ UNCHANGED << ser, ok, hoover, dkind, owner, rotor, frame, range, pkt,
                  buf, tx, env, cloc, ret, wpc, wloc, pixel, image, stream >>

\* Done: "if (run > 0) { run = 0; ...".
DoneCall ==
  /\ cpc = "idle"
  /\ IF run > 0
       THEN run' = 0 /\ cpc' = "d_join"
       ELSE run' = run /\ cpc' = "d_ser"
  /\ phase' = IF phase = "running" THEN "stopping" ELSE phase
  /\ UNCHANGED << ser, ok, hoover, dkind, owner, rotor, frame, range, pkt,
                  buf, tx, env, cloc, ret, wpc, wloc, pixel, image, stream >>

\* Done: pthread_timedjoin_np(hoover, 0, &one_sec) returns because the
\* thread has ended ...
DoneJoin ==
  /\ cpc = "d_join"
  /\ ~Alive(hoover)
  /\ cpc' = "d_ser"
  /\ UNCHANGED << ser, ok, run, hoover, dkind, owner, rotor, frame, range,
                  pkt, buf, tx, env, cloc, ret, wpc, wloc, phase,
                  pixel, image, stream >>

\* ... or because the second has passed while the thread is still running.
DoneTimeout ==
  /\ cpc = "d_join"
  /\ Alive(hoover)
  /\ cpc' = "d_ser"
  /\ UNCHANGED << ser, ok, run, hoover, dkind, owner, rotor, frame, range,
                  pkt, buf, tx, env, cloc, ret, wpc, wloc, phase,
                  pixel, image, stream >>

\* Done: "if (ser >= 0) { write(ser, "AT+UNIT=0\r", 10); usleep(50000);".
DoneSer ==
  /\ cpc = "d_ser"
  /\ IF ser >= 0
       THEN tx' = Write("AT+UNIT=0\r") /\ cpc' = "d_disp"
       ELSE tx' = tx /\ cpc' = "d_ok"
  /\ UNCHANGED << ser, ok, run, hoover, dkind, owner, rotor, frame, range,
                  pkt, buf, env, cloc, ret, wpc, wloc, phase, pixel, image, stream >>

\* Done: write(ser, "AT+DISP=1\r", 10).
DoneDisp ==
  /\ cpc = "d_disp"
  /\ tx' = Write("AT+DISP=1\r")
  /\ cpc' = "d_close"
  /\ UNCHANGED << ser, ok, run, hoover, dkind, owner, rotor, frame, range,
                  pkt, buf, env, cloc, ret, wpc, wloc, phase, pixel, image, stream >>

\* A Done that would close the port and keep the stale descriptor.
DoneCloseBad ==
  /\ cpc = "d_close"
  /\ cpc' = "d_ok"
  /\ UNCHANGED << ser, ok, run, hoover, dkind, owner, rotor, frame, range,
                  pkt, buf, tx, env, cloc, ret, wpc, wloc, phase,
                  pixel, image, stream >>

\* Done: "close(ser); ser = -1" (the log of the closed port is dropped).
DoneClose ==
  /\ cpc = "d_close"
  /\ ser' = -1
  /\ tx' = << >>
  /\ cpc' = "d_ok"
  /\ UNCHANGED << ok, run, hoover, dkind, owner, rotor, frame, range, pkt,
                  buf, env, cloc, ret, wpc, wloc, phase, pixel, image, stream >>

\* A Done that would return without marking the driver un-initialized.
DoneOkBad ==
  /\ cpc = "d_ok"
  /\ ret' = Returned("Done", 0)
  /\ cpc' = "return"
  /\ phase' = "closed"
  /\ UNCHANGED << ser, ok, run, hoover, dkind, owner, rotor, frame, range,
                  pkt, buf, tx, env, cloc, wpc, wloc, pixel, image, stream >>

\* Done: "ok = -1".
DoneOk ==
  /\ cpc = "d_ok"
  /\ ok' = -1
  /\ ret' = Returned("Done", 0)
  /\ cpc' = "return"
  /\ phase' = "closed"
  /\ UNCHANGED << ser, run, hoover, dkind, owner, rotor, frame, range, pkt,
                  buf, tx, env, cloc, wpc, wloc, pixel, image, stream >>

\* The caller has the returned value and is free to make its next call.
Return ==
  /\ cpc = "return"
  /\ cpc' = "idle"
  /\ ret' = NoCall
  /\ blk' = 0 /\ wait' = 0
  /\ UNCHANGED << ser, ok, run, hoover, dkind, owner, rotor, frame, range,
                  pkt, buf, tx, env, creg, wpc, wloc, phase, pixel, image, stream >>

Done == \/ DoneCall \/ DoneJoin \/ DoneTimeout \/ DoneSer \/ DoneDisp
        \/ DoneClose \/ DoneOk

\* ------------------------------------------ worker thread: main_loop

\* main_loop: "while (run > 0)".
MainLoop(w) ==
  /\ wpc[w] = "loop"
  /\ wpc' = [wpc EXCEPT ![w] = IF run > 0 THEN "sync" ELSE "exit"]
  /\ UNCHANGED << ser, ok, run, hoover, dkind, owner, rotor, frame, range,
                  pkt, buf, tx, env, cpc, cloc, ret, wloc, phase,
                  pixel, image, stream >>

\* main_loop: "ok = 0" after the loop; absorb then returns.
MainExit(w) ==
  /\ wpc[w] = "exit"
  /\ ok' = 0
  /\ wpc' = [wpc EXCEPT ![w] = "exited"]
  /\ UNCHANGED << ser, run, hoover, dkind, owner, rotor, frame, range, pkt,
                  buf, tx, env, cpc, cloc, ret, wloc, phase, pixel, image, stream >>

\* A table that would shift by 7 instead of 8.
RescaledBad(f, i) == (f * i + 128) \div 128

\* depth_step: "sc[i] = (f * i + 128) >> 8" for a factor f in 1/256ths.
Rescaled(f, i) == (f * i + 128) \div 256

\* depth_step: the mean is rescaled by unit / pend, the variance by the
\* square of it, each stored back into an unsigned char ("*p = sc[*p]"),
\* and "unit = pend".
depth_step ==
  /\ avgpx' = Rescaled((unit * 256) \div pend, avgpx) % 256
  /\ varpx' = Rescaled((unit * unit * 256) \div (pend * pend), varpx) % 256
  /\ unit' = pend

\* sync on the bytes b that arrive, from byte number pos on, "start" rounds
\* of the loop done: whether the sentinel was found, the value of "start"
\* and the number of bytes read. A read past the last byte returns <= 0.
SyncEnd(f, st, n) == [found |-> f, start |-> st, used |-> n]

RECURSIVE SyncFrom(_, _, _)
SyncFrom(b, pos, start) ==
  IF start > SyncLimit THEN SyncEnd(FALSE, start + 1, pos - 1)
  ELSE IF pos > Len(b) THEN SyncEnd(FALSE, start + 1, pos - 1)
  ELSE IF b[pos] # 0 THEN SyncFrom(b, pos + 1, start + 1)
  ELSE IF pos + 1 > Len(b) THEN SyncEnd(FALSE, start + 1, pos)
  ELSE IF b[pos + 1] # 255 THEN SyncFrom(b, pos + 2, start + 1)
  ELSE IF pos + 2 > Len(b) THEN SyncEnd(FALSE, start + 1, pos + 1)
  ELSE IF b[pos + 2] # 32 THEN SyncFrom(b, pos + 3, start + 1)
  ELSE IF pos + 3 > Len(b) THEN SyncEnd(FALSE, start + 1, pos + 2)
  ELSE IF b[pos + 3] # 39 THEN SyncFrom(b, pos + 4, start + 1)
  ELSE SyncEnd(TRUE, start + 1, pos + 3)

\* A sync that would not count its first round.
syncBad(b) == [SyncFrom(b, 1, 0) EXCEPT !.start = @ - 1]

sync(b) == SyncFrom(b, 1, 0)

\* sync returns 1: it has found the sentinel in the bytes that arrived;
\* after more than one round (start > 1) and with frame > 2 it has called
\* depth_step.
SyncFound(w) ==
  /\ wpc[w] = "sync"
  /\ ser >= 0 /\ npkt < pktlim
  /\ \E b \in wires :
       /\ sync(b).found
       /\ IF sync(b).start > 1 /\ frame > AckFrames THEN depth_step
          ELSE UNCHANGED << unit, avgpx, varpx >>
  /\ wpc' = [wpc EXCEPT ![w] = "fill_raw"]
  /\ UNCHANGED << ser, ok, run, hoover, dkind, owner, rotor, frame, pend,
                  pkt, buf, tx, env, cpc, cloc, ret, wloc, phase,
                  rawpx, medpx, outpx, image, stream >>

\* sync returns 0: a read returned <= 0 (time-out, end of stream, closed
\* descriptor) or more than 20000 rounds found no sentinel.
SyncLost(w) ==
  /\ wpc[w] = "sync"
  /\ wpc' = [wpc EXCEPT ![w] = "exit"]
  /\ UNCHANGED << ser, ok, run, hoover, dkind, owner, rotor, frame, range,
                  pkt, buf, tx, env, cpc, cloc, ret, wloc, phase,
                  pixel, image, stream >>

\* fill_raw returns 1: the rest of the packet is in pkt[].
FillRawDone(w) ==
  /\ wpc[w] = "fill_raw"
  /\ ser >= 0 /\ npkt < pktlim
  /\ npkt' = npkt + 1
  /\ pkt' = npkt + 1
  /\ rawpx' \in {px[1] : px \in feed}
  /\ wpc' = [wpc EXCEPT ![w] = "auto_range"]
  /\ UNCHANGED << ser, ok, run, hoover, dkind, owner, rotor, frame, range,
                  buf, tx, nstart, pktlim, startlim, scenes, feed, f0, wires, cpc,
                  cloc, ret, wloc, phase, medpx, avgpx, varpx, outpx,
                  image, stream >>

\* fill_raw returns 0: a read returned <= 0.
FillRawLost(w) ==
  /\ wpc[w] = "fill_raw"
  /\ wpc' = [wpc EXCEPT ![w] = "exit"]
  /\ UNCHANGED << ser, ok, run, hoover, dkind, owner, rotor, frame, range,
                  pkt, buf, tx, env, cpc, cloc, ret, wloc, phase,
                  pixel, image, stream >>

\* ---------------------------------- worker thread: sync and fill_raw, read
\* by read, on the bytes of "wire"

\* sync: "int start = 0".
SyncEnter(w) ==
  /\ wpc[w] = "sync"
  /\ wstart' = [wstart EXCEPT ![w] = 0]
  /\ wpc' = [wpc EXCEPT ![w] = "sync_loop"]
  /\ UNCHANGED << ser, ok, run, hoover, dkind, owner, rotor, frame, range,
                  pkt, buf, tx, env, cpc, cloc, ret, wloc, phase, pixel,
                  image, wire, at, wn >>

\* sync: the reads of one round of "while (1)" on the bytes from number i
\* on: the round ends with "continue" ("more"), with "return 0" after a read
\* that returned <= 0 ("lost") or with "break" ("found"), having read "used"
\* bytes.
SyncReads(o, k) == [out |-> o, used |-> k]

SyncRead(wr, i) ==
  IF WireByte(wr, i) < 0 THEN SyncReads("lost", 0)
  ELSE IF WireByte(wr, i) # 0 THEN SyncReads("more", 1)
  ELSE IF WireByte(wr, i + 1) < 0 THEN SyncReads("lost", 1)
  ELSE IF WireByte(wr, i + 1) # 255 THEN SyncReads("more", 2)
  ELSE IF WireByte(wr, i + 2) < 0 THEN SyncReads("lost", 2)
  ELSE IF WireByte(wr, i + 2) # 32 THEN SyncReads("more", 3)
  ELSE IF WireByte(wr, i + 3) < 0 THEN SyncReads("lost", 3)
  ELSE IF WireByte(wr, i + 3) # 39 THEN SyncReads("more", 4)
  ELSE SyncReads("found", 4)

\* sync: one round of "while (1)": "if (start++ > 20000) return 0", the
\* reads, and after "break" the call of depth_step on
\* "(start > 1) && (frame > 2)" and "return 1".
SyncRound(w) ==
  /\ wpc[w] = "sync_loop"
  /\ wstart' = [wstart EXCEPT ![w] = @ + 1]
  /\ IF wstart[w] > SyncLimit
       THEN /\ wpc' = [wpc EXCEPT ![w] = "exit"]
            /\ UNCHANGED << at, unit, avgpx, varpx >>
       ELSE LET r == SyncRead(wire, at)
            IN  /\ at' = at + r.used
                /\ wpc' = [wpc EXCEPT ![w] =
                             CASE r.out = "lost" -> "exit"
                               [] r.out = "more" -> "sync_loop"
                               [] r.out = "found" -> "fill_raw"]
                /\ IF r.out = "found" /\ wstart[w] + 1 > 1
                                      /\ frame > AckFrames
                     THEN depth_step
                     ELSE UNCHANGED << unit, avgpx, varpx >>
  /\ UNCHANGED << ser, ok, run, hoover, dkind, owner, rotor, frame, pend,
                  pkt, buf, tx, env, cpc, cloc, ret, wloc, phase,
                  rawpx, medpx, outpx, image, wire, wn >>

\* fill_raw: "n = 0".
FillEnter(w) ==
  /\ wpc[w] = "fill_raw"
  /\ wn' = [wn EXCEPT ![w] = 0]
  /\ wpc' = [wpc EXCEPT ![w] = "fill_loop"]
  /\ UNCHANGED << ser, ok, run, hoover, dkind, owner, rotor, frame, range,
                  pkt, buf, tx, env, cpc, cloc, ret, wloc, phase, pixel,
                  image, wire, at, wstart >>

\* Numbers of bytes a read may return when more were asked for and are on
\* their way.
ShortReads == {1, 5009}

\* fill_raw: the number of bytes a read can return at most: the
\* "10018 - n" asked for, or the "left" bytes still to arrive if fewer.
FillAskBad(n, left) == IF PktLen < left THEN PktLen ELSE left

FillAsk(n, left) == IF PktLen - n < left THEN PktLen - n ELSE left

\* fill_raw: one round of "while (1)": "rc = read(ser, pkt + n, 10018 - n)"
\* returns <= 0 when no byte arrives, else some or all of the bytes asked
\* for; "n += rc", and "return 1" on "n >= 10018".
FillRead(w) ==
  /\ wpc[w] = "fill_loop"
  /\ LET ask == FillAsk(wn[w], wire.len - at)
     IN  IF ask <= 0
           THEN /\ wpc' = [wpc EXCEPT ![w] = "exit"]
                /\ UNCHANGED << at, wn, npkt, pkt, rawpx >>
           ELSE \E rc \in {ask} \cup {c \in ShortReads : c < ask} :
                  /\ at' = at + rc
                  /\ wn' = [wn EXCEPT ![w] = @ + rc]
                  /\ IF wn[w] + rc >= PktLen
                       THEN /\ npkt' = npkt + 1
                            /\ pkt' = npkt + 1
                            /\ rawpx' \in {px[1] : px \in feed}
                            /\ wpc' = [wpc EXCEPT ![w] = "auto_range"]
                       ELSE /\ UNCHANGED << npkt, pkt, rawpx >>
                            /\ wpc' = wpc
  /\ UNCHANGED << ser, ok, run, hoover, dkind, owner, rotor, frame, range,
                  buf, tx, nstart, pktlim, startlim, scenes, feed, f0, wires,
                  cpc, cloc, ret, wloc, phase, medpx, avgpx, varpx, outpx,
                  image, wire, wstart >>

\* auto_range on a scene with "miss" percent of saturated pixels and
\* percentile bin "bulk": nothing on "frame < 2"; else the goal and the test
\* "(goal != unit) && (pend == unit)".
auto_range(w, miss, bulk) ==
  LET g == AutoGoal(unit, miss, bulk)
  IN  IF frame >= WarmFrames /\ g # unit /\ pend = unit
        THEN /\ goal' = [goal EXCEPT ![w] = g]
             /\ wpc' = [wpc EXCEPT ![w] = "auto_send"]
        ELSE /\ goal' = goal
             /\ wpc' = [wpc EXCEPT ![w] = "flywheel"]

AutoRange(w) ==
  /\ wpc[w] = "auto_range"
  /\ \E sc \in scenes : auto_range(w, Miss(sc), Bulk(sc))
  /\ UNCHANGED << ser, ok, run, hoover, dkind, owner, rotor, frame, range,
                  pkt, buf, tx, env, cpc, cloc, ret, wd, wreg, wnx, phase,
                  pixel, image, stream >>

\* auto_range: "pend = goal; cmd[8] = '0' + pend; write(ser, cmd, 10)".
AutoSend(w) ==
  /\ wpc[w] = "auto_send"
  /\ pend' = goal[w]
  /\ tx' = Write(UnitCmd(goal[w]))
  /\ goal' = [goal EXCEPT ![w] = 0]
  /\ wpc' = [wpc EXCEPT ![w] = "flywheel"]
  /\ UNCHANGED << ser, ok, run, hoover, dkind, owner, rotor, frame, unit,
                  pkt, buf, env, cpc, cloc, ret, wd, wreg, wnx, phase,
                  pixel, image, stream >>

\* flywheel: "fi = (int)(256.0 * f0 + 0.5)" for f0 in tenths, and
\* "mn = (int)(256.0 * nv + 0.5)".
Fi(tenths) == (512 * tenths + 10) \div 20
Mn == (512 * nv + 1) \div 2

\* "((val <= 0) ? 0 : ((val < 255) ? val : 255))".
Byte(val) == IF val <= 0 THEN 0 ELSE IF val < 255 THEN val ELSE 255

\* "x << 8" on a 32-bit int, for x >= 0: the low 23 bits of x move up, bit 23
\* becomes the sign, the bits above are lost (the result the compilers of the
\* build give for a shift that leaves the range of int).
Shl8(x) ==
  IF (x \div 8388608) % 2 = 1
    THEN ((x % 8388608) * 256 - 2147483647) - 1
    ELSE (x % 8388608) * 256

\* "a / b" on ints, b > 0: the quotient rounded towards 0.
Quot(a, b) == IF a >= 0 THEN a \div b ELSE (a + b - 1) \div b

\* A measurement variance taken from the difference, not from its square.
VmBad(m, p, v, fi) == (256 - fi) * v + fi * (m - p)

\* flywheel: "vm = cfi * (*v) + fi * diff * diff".
Vm(m, p, v, fi) == (256 - fi) * v + fi * (m - p) * (m - p)

\* flywheel: "k = (vm << 8) / (vm + mn)".
Gain(vm) == Quot(Shl8(vm), vm + Mn)

\* A flywheel that would treat the first frame like every other.
FlywheelPxBad(m, p, v, fr, fi) ==
  LET diff == m - p
      vm   == Vm(m, p, v, fi)
      k    == Gain(vm)
  IN  << Byte((p * 256 + k * diff + 128) \div 256),
         Byte(((256 - k) * (vm \div 2) + 16384) \div 32768) >>

\* flywheel at one pixel: median m, mean p and variance v give the new
\* << mean, variance >>; on "frame <= 0" the mean is m and the variance 0.
FlywheelPx(m, p, v, fr, fi) ==
  IF fr <= 0 THEN << m, 0 >>
  ELSE LET diff == m - p
           vm   == Vm(m, p, v, fi)
           k    == Gain(vm)
       IN  << Byte((p * 256 + k * diff + 128) \div 256),
              Byte(((256 - k) * (vm \div 2) + 16384) \div 32768) >>

\* median5x5 and flywheel of the frame, at the pixel followed.
flywheel(w) ==
  /\ wpc[w] = "flywheel"
  /\ \E px \in feed :
       /\ px[1] = rawpx
       /\ medpx' = px[2]
       /\ avgpx' = FlywheelPx(px[2], avgpx, varpx, frame, Fi(f0))[1]
       /\ varpx' = FlywheelPx(px[2], avgpx, varpx, frame, Fi(f0))[2]
  /\ wpc' = [wpc EXCEPT ![w] = "reformat"]
  /\ UNCHANGED << ser, ok, run, hoover, dkind, owner, rotor, frame, range,
                  pkt, buf, tx, env, cpc, cloc, ret, wloc, phase,
                  rawpx, outpx, image, stream >>

\* A build_lut that would keep only the low byte of each entry.
normBad(u, pel) == (4 * u * pel) % 256

\* build_lut: "norm[u - 1][pel] = (unsigned short)(4 * u * pel)".
norm(u, pel) == (4 * u * pel) % 65536

\* A reformat that would not look at the variance.
ReformatPxBad(s, p, v, u) ==
  IF s >= 255 \/ p >= 255 THEN 65535 ELSE norm(u, p)

\* reformat: the value stored for raw sample s, mean p, variance v, step u.
ReformatPx(s, p, v, u) ==
  IF s >= 255 \/ p >= 255 \/ v > vlim THEN 65535 ELSE norm(u, p)

\* reformat: "d = (unsigned short *) fill" and the first pixel written.
ReformatBegin(w) ==
  /\ wpc[w] = "reformat"
  /\ wd' = [wd EXCEPT ![w] = fill]
  /\ buf' = [buf EXCEPT ![fill] = [tag |-> pkt, full |-> FALSE]]
  /\ wpc' = [wpc EXCEPT ![w] = "writing"]
  /\ UNCHANGED << ser, ok, run, hoover, dkind, owner, rotor, frame, range,
                  pkt, tx, env, cpc, cloc, ret, wreg, wnx, goal, phase,
                  pixel, image, stream >>

\* reformat: the last pixel written.
ReformatEnd(w) ==
  /\ wpc[w] = "writing"
  /\ buf' = [buf EXCEPT ![wd[w]].full = TRUE]
  /\ wd' = [wd EXCEPT ![w] = NULL]
  /\ outpx' = ReformatPx(rawpx, avgpx, varpx, unit)
  /\ wpc' = [wpc EXCEPT ![w] = "sw_lock"]
  /\ UNCHANGED << ser, ok, run, hoover, dkind, owner, rotor, frame, range,
                  pkt, tx, env, cpc, cloc, ret, wreg, wnx, goal, phase,
                  rawpx, medpx, avgpx, varpx, image, stream >>

\* swap_bufs: pthread_mutex_lock(&data).
SwapLock(w) ==
  /\ wpc[w] = "sw_lock"
  /\ CanLock("absorb")
  /\ owner' = Locked("absorb")
  /\ wpc' = [wpc EXCEPT ![w] = "sw_done"]
  /\ UNCHANGED << ser, ok, run, hoover, dkind, rotor, frame, range, pkt,
                  buf, tx, env, cpc, cloc, ret, wloc, phase, pixel, image, stream >>

\* swap_bufs: "done = fill".
SwapDone(w) ==
  /\ wpc[w] = "sw_done"
  /\ done' = fill
  /\ wpc' = [wpc EXCEPT ![w] = "sw_load"]
  /\ UNCHANGED << ser, ok, run, hoover, dkind, owner, fill, lock, fresh,
                  frame, range, pkt, buf, tx, env, cpc, cloc, ret, wloc,
                  phase, pixel, image, stream >>

\* swap_bufs: "fresh += 1", the load ...
SwapLoad(w) ==
  /\ wpc[w] = "sw_load"
  /\ wreg' = [wreg EXCEPT ![w] = fresh]
  /\ wpc' = [wpc EXCEPT ![w] = "sw_fresh"]
  /\ UNCHANGED << ser, ok, run, hoover, dkind, owner, rotor, frame, range,
                  pkt, buf, tx, env, cpc, cloc, ret, wd, wnx, goal, phase,
                  pixel, image, stream >>

\* ... and the store.
SwapFresh(w) ==
  /\ wpc[w] = "sw_fresh"
  /\ fresh' = wreg[w] + 1
  /\ wreg' = [wreg EXCEPT ![w] = 0]
  /\ wpc' = [wpc EXCEPT ![w] = "sw_pick"]
  /\ UNCHANGED << ser, ok, run, hoover, dkind, owner, fill, done, lock,
                  frame, range, pkt, buf, tx, env, cpc, cloc, ret, wd, wnx,
                  goal,                  phase, pixel, image, stream >>

\* swap_bufs: the tests of "fill" and "lock" that pick the next buffer ...
SwapPick(w) ==
  /\ wpc[w] = "sw_pick"
  /\ wnx' = [wnx EXCEPT ![w] = NextFill(fill, lock)]
  /\ wpc' = [wpc EXCEPT ![w] = "sw_fill"]
  /\ UNCHANGED << ser, ok, run, hoover, dkind, owner, rotor, frame, range,
                  pkt, buf, tx, env, cpc, cloc, ret, wd, wreg, goal, phase,
                  pixel, image, stream >>

\* ... and the store "fill = ...".
SwapFill(w) ==
  /\ wpc[w] = "sw_fill"
  /\ fill' = wnx[w]
  /\ wnx' = [wnx EXCEPT ![w] = NULL]
  /\ wpc' = [wpc EXCEPT ![w] = "sw_unlock"]
  /\ UNCHANGED << ser, ok, run, hoover, dkind, owner, done, lock, fresh,
                  frame, range, pkt, buf, tx, env, cpc, cloc, ret, wd,
                  wreg, goal, phase, pixel, image, stream >>

\* swap_bufs: pthread_mutex_unlock(&data); frame++.
SwapUnlock(w) ==
  /\ wpc[w] = "sw_unlock"
  /\ owner' = Unlocked("absorb")
  /\ frame' = frame + 1
  /\ wpc' = [wpc EXCEPT ![w] = "loop"]
  /\ UNCHANGED << ser, ok, run, hoover, dkind, rotor, range, pkt, buf, tx,
                  env, cpc, cloc, ret, wloc, phase, pixel, image, stream >>

swap_bufs(w) == \/ SwapLock(w) \/ SwapDone(w) \/ SwapLoad(w) \/ SwapFresh(w)
                \/ SwapPick(w) \/ SwapFill(w) \/ SwapUnlock(w)

main_loop(w) == \/ MainLoop(w) \/ MainExit(w)
                \/ SyncFound(w) \/ SyncLost(w)
                \/ FillRawDone(w) \/ FillRawLost(w)
                \/ AutoRange(w) \/ AutoSend(w) \/ flywheel(w)
                \/ ReformatBegin(w) \/ ReformatEnd(w)
                \/ swap_bufs(w)

\* ---------------------------------------------------------- specifications

\* Lifecycles: every sequence of Start, Range and Done calls of the consumer
\* thread against every worker thread.
Next == \/ Start \/ Range(MaxWait) \/ Done \/ Return
        \/ \E w \in Workers : main_loop(w)

Spec == Init /\ [][Next]_vars

\* The same program under a scheduler that lets no thread starve: a worker
\* thread that can take a step of main_loop takes one, and so does the
\* consumer inside a call (between calls it is free to make none).
FairSpec ==
  /\ Spec
  /\ \A w \in Workers : WF_vars(main_loop(w))
  /\ WF_vars(cpc # "idle" /\ (Start \/ Range(MaxWait) \/ Done \/ Return))

\* One session: Start once, then Range calls against the worker thread.
NextSession == \/ Start \/ Range(MaxWait) \/ Return
               \/ \E w \in Workers : main_loop(w)

SpecSession == InitSession /\ [][NextSession]_vars

\* One session under a scheduler that lets no thread starve.
FairSession ==
  /\ SpecSession
  /\ \A w \in Workers : WF_vars(main_loop(w))
  /\ WF_vars(cpc # "idle" /\ (Start \/ Range(MaxWait) \/ Return))

\* Polling: one session in which every sleep of a blocking Range call is
\* interleaved with the worker thread.
NextPoll == \/ Start \/ Range(WaitLimit + 1) \/ Return
            \/ \E w \in Workers : main_loop(w)

SpecPoll == InitPoll /\ [][NextPoll]_vars

\* ------------------------------------------- worker thread: median5x5

\* An image is a row-major array pel of hgt rows of wid pixels; the code's
\* images have wid = hgt = 100 (row stride 100, last row at offset 9900,
\* last column 99).
Image(w, h, f) == [wid |-> w, hgt |-> h, pel |-> f]

\* median5x5: "now = ((now <= 0) ? 0 : ((now < 9900) ? now : 9900))", as a
\* row number.
ClampRow(img, r) ==
  IF r <= 0 THEN 0 ELSE IF r < img.hgt - 1 THEN r ELSE img.hgt - 1

\* median5x5: "*(s + now + nowx)" for row y + j and column c.
Sample(img, y, j, c) == img.pel[ClampRow(img, y + j) * img.wid + c]

\* The five row offsets "for (j = -200; j < 300; j += 100)".
BoxRows == << -2, -1, 0, 1, 2 >>

\* Histogram state of median5x5.
Histo(v, b, c) == [vals |-> v, bot |-> b, cnt |-> c]

\* An update that would count the sample and leave bot where it is.
AddPelBad(h, pel, n) ==
  Histo([h.vals EXCEPT ![pel] = @ + n], h.bot, h.cnt)

\* median5x5: "bot = ((pel < bot) ? pel : bot); vals[pel] += n".
AddPel(h, pel, n) ==
  Histo([h.vals EXCEPT ![pel] = @ + n],
        IF pel < h.bot THEN pel ELSE h.bot, h.cnt)

\* median5x5: histogram for the x = 0 edge, rows BoxRows[i ..].
RECURSIVE EdgeRows(_, _, _, _)
EdgeRows(img, y, i, h) ==
  IF i > 5 THEN h
  ELSE EdgeRows(img, y, i + 1,
         AddPel(AddPel(AddPel(h, Sample(img, y, BoxRows[i], 0), 3),
                       Sample(img, y, BoxRows[i], 1), 1),
                Sample(img, y, BoxRows[i], 2), 1))

\* median5x5: bins hi >= bot with vals[hi] > 0, as the scan meets them.
Filled(v, b) == {hi \in b .. 255 : v[hi] > 0}

\* median5x5: "sub" when the scan has passed bin hi.
RECURSIVE SumBins(_, _)
SumBins(v, bins) ==
  IF bins = {} THEN 0
  ELSE LET b == CHOOSE x \in bins : TRUE
       IN  v[b] + SumBins(v, bins \ {b})

SubAt(v, b, hi) == SumBins(v, {x \in Filled(v, b) : x <= hi})

\* median5x5: value of hi when "for (hi = bot; hi < 256; hi++)" ends: the
\* first filled bin with sub >= 13, 256 when there is none.
ScanTopBad(v, b) ==
  LET top == {hi \in Filled(v, b) : SubAt(v, b, hi) >= 17}
  IN  IF top = {} THEN 256
      ELSE CHOOSE hi \in top : \A x \in top : hi <= x

ScanTop(v, b) ==
  LET top == {hi \in Filled(v, b) : SubAt(v, b, hi) >= 13}
  IN  IF top = {} THEN 256
      ELSE CHOOSE hi \in top : \A x \in top : hi <= x

\* median5x5: "lowest" after the scan: the first filled bins met, six at
\* most, overwrite its first entries.
RECURSIVE Ascending(_)
Ascending(bins) ==
  IF bins = {} THEN << >>
  ELSE LET b == CHOOSE x \in bins : \A z \in bins : x <= z
       IN  << b >> \o Ascending(bins \ {b})

ScanLowestBad(v, b, low) ==
  LET met == Ascending({x \in Filled(v, b) : x <= ScanTop(v, b)})
  IN  [i \in 1 .. 6 |-> IF i = 1 \/ Len(met) = 1 THEN met[1]
                        ELSE IF i + 1 <= Len(met) THEN met[i + 1]
                        ELSE met[Len(met)]]

ScanLowest(v, b, low) ==
  LET met == Ascending({x \in Filled(v, b) : x <= ScanTop(v, b)})
  IN  [i \in 1 .. 6 |-> IF i <= Len(met) THEN met[i] ELSE low[i]]

\* median5x5: subtract the old column c, rows BoxRows[i ..]:
\* "if ((pel == bot) && (vals[pel] <= 1)) bot = lowest[++cnt];
\*  vals[pel] -= 1".
RECURSIVE SubColumn(_, _, _, _, _, _)
SubColumn(img, y, c, low, i, h) ==
  IF i > 5 THEN h
  ELSE LET pel == Sample(img, y, BoxRows[i], c)
           out == pel = h.bot /\ h.vals[pel] <= 1
       IN  SubColumn(img, y, c, low, i + 1,
             Histo([h.vals EXCEPT ![pel] = @ - 1],
                   IF out THEN low[h.cnt + 2] ELSE h.bot,
                   IF out THEN h.cnt + 1 ELSE h.cnt))

\* median5x5: add the new column c, rows BoxRows[i ..].
RECURSIVE AddColumn(_, _, _, _, _)
AddColumn(img, y, c, i, h) ==
  IF i > 5 THEN h
  ELSE AddColumn(img, y, c, i + 1,
                 AddPel(h, Sample(img, y, BoxRows[i], c), 1))

\* median5x5: "for (y ...)": the histogram for the x = 0 edge of row my, or
\* the end of the function.
MedianRow(w) ==
  /\ wpc[w] = "med_row"
  /\ IF my >= rawimg.hgt
       THEN /\ wpc' = [wpc EXCEPT ![w] = "med_done"]
            /\ UNCHANGED << vals, bot, mx >>
       ELSE LET h == EdgeRows(rawimg, my, 1,
                              Histo([i \in 0 .. 255 |-> 0], 255, 0))
            IN  /\ vals' = h.vals /\ bot' = h.bot /\ mx' = 0
                /\ wpc' = [wpc EXCEPT ![w] = "med_scan"]
  /\ UNCHANGED << ser, ok, run, hoover, dkind, owner, rotor, frame, range,
                  pkt, buf, tx, env, cpc, cloc, ret, wloc, phase, pixel,
                  rawimg, medimg, lowest, my,
                  stream >>

\* median5x5: "for (x ...)": the scan of the histogram and "*d = hi", or
\* the end of the row.
MedianScan(w) ==
  /\ wpc[w] = "med_scan"
  /\ IF mx >= rawimg.wid
       THEN /\ my' = my + 1
            /\ wpc' = [wpc EXCEPT ![w] = "med_row"]
            /\ UNCHANGED << medimg, lowest >>
       ELSE /\ lowest' = ScanLowest(vals, bot, lowest)
            /\ medimg' = [medimg EXCEPT !.pel[my * rawimg.wid + mx] =
                                          ScanTop(vals, bot) % 256]
            /\ wpc' = [wpc EXCEPT ![w] = "med_shift"]
            /\ my' = my
  /\ UNCHANGED << ser, ok, run, hoover, dkind, owner, rotor, frame, range,
                  pkt, buf, tx, env, cpc, cloc, ret, wloc, phase, pixel,
                  rawimg, vals, bot, mx,
                  stream >>

\* median5x5: unless at the last pixel of the row, the histogram box moves
\* right: the old left column is subtracted, the new right one added.
MedianShift(w) ==
  /\ wpc[w] = "med_shift"
  /\ IF mx >= rawimg.wid - 1
       THEN UNCHANGED << vals, bot >>
       ELSE LET old == IF mx - 2 <= 0 THEN 0 ELSE mx - 2
                new == IF mx + 3 < rawimg.wid - 1 THEN mx + 3
                       ELSE rawimg.wid - 1
                h == AddColumn(rawimg, my, new, 1,
                       SubColumn(rawimg, my, old, lowest, 1,
                                 Histo(vals, bot, 0)))
            IN  vals' = h.vals /\ bot' = h.bot
  /\ mx' = mx + 1
  /\ wpc' = [wpc EXCEPT ![w] = "med_scan"]
  /\ UNCHANGED << ser, ok, run, hoover, dkind, owner, rotor, frame, range,
                  pkt, buf, tx, env, cpc, cloc, ret, wloc, phase, pixel,
                  rawimg, medimg, lowest, my,
                  stream >>

median5x5(w) == MedianRow(w) \/ MedianScan(w) \/ MedianShift(w)

\* Every strip of one row and StripLen pixels with values 0, 1, 2.
Strips ==
  { Image(StripLen, 1, f) : f \in [0 .. StripLen - 1 -> {0, 1, 2}] }

\* Fields that are 0 except for one pixel of 255.
Impulses ==
  { Image(FieldSide, FieldSide,
          [i \in 0 .. FieldSide * FieldSide - 1 |->
             IF i = k THEN 255 ELSE 0]) :
    k \in 0 .. FieldSide * FieldSide - 1 }

\* Fields of mixed values: pixel (x, y) is (a x + b y + c x y + x x) mod m.
Textures ==
  { Image(FieldSide, FieldSide,
          [i \in 0 .. FieldSide * FieldSide - 1 |->
             LET x == i % FieldSide
                 y == i \div FieldSide
             IN  (q[1] * x + q[2] * y + q[3] * x * y + x * x) % q[4]]) :
    q \in {0, 1, 2, 3, 10} \X {0, 1, 2, 3, 250} \X (0 .. 3)
          \X {2, 3, 5, 7, 251} }

\* median5x5 is about to run on a raw image; med[] and the histogram hold
\* nothing yet, and no entry of "lowest" has been written.
InitMedian ==
  /\ StartedAt(2, 0, "med_row")
  /\ dkind = "valid"
  /\ startlim = 1 /\ pktlim = 1 /\ scenes = Scenes /\ Tuned /\ Wired
  /\ NoPixel /\ NoStream
  /\ rawimg \in Strips \cup Impulses \cup Textures
  /\ medimg = Image(rawimg.wid, rawimg.hgt,
                    [i \in 0 .. rawimg.wid * rawimg.hgt - 1 |-> 0])
  /\ vals = [i \in 0 .. 255 |-> 0]
  /\ lowest = [i \in 1 .. 6 |-> 0 - 1]
  /\ bot = 0 /\ mx = 0 /\ my = 0

NextMedian == \E w \in Workers : median5x5(w)

SpecMedian == InitMedian /\ [][NextMedian]_vars

\* ------------------------------------------- worker thread: one pixel

\* Values of a pixel of raw[], med[] and avg[], and of var[], that the runs
\* of one pixel start from.
PxVals == {0, 1, 100, 254, 255}
VarVals == {0, 1, 32, 33, 255}

\* reformat, for one pixel.
PixelReformat(w) ==
  /\ wpc[w] = "px_reformat"
  /\ outpx' = ReformatPx(rawpx, avgpx, varpx, unit)
  /\ wpc' = [wpc EXCEPT ![w] = "px_done"]
  /\ UNCHANGED << ser, ok, run, hoover, dkind, owner, rotor, frame, range,
                  pkt, buf, tx, env, cpc, cloc, ret, wloc, phase,
                  rawpx, medpx, avgpx, varpx, image, stream >>

\* One pixel: a worker between flywheel and reformat, with any depth step
\* and any values of the pixel.
InitPixel ==
  /\ \E u \in 1 .. 9 : StartedAt(u, 1, "px_reformat")
  /\ dkind = "valid"
  /\ startlim = 1 /\ pktlim = 1 /\ scenes = Scenes /\ Tuned /\ Wired
  /\ rawpx \in PxVals /\ medpx = 0 /\ avgpx \in PxVals
  /\ varpx \in VarVals /\ outpx = 0
  /\ NoImage /\ NoStream

NextPixel == \E w \in Workers : PixelReformat(w)

SpecPixel == InitPixel /\ [][NextPixel]_vars

\* flywheel, for one pixel.
PixelFlywheel(w) ==
  /\ wpc[w] = "px_flywheel"
  /\ avgpx' = FlywheelPx(medpx, avgpx, varpx, frame, Fi(f0))[1]
  /\ varpx' = FlywheelPx(medpx, avgpx, varpx, frame, Fi(f0))[2]
  /\ wpc' = [wpc EXCEPT ![w] = "px_reformat"]
  /\ UNCHANGED << ser, ok, run, hoover, dkind, owner, rotor, frame, range,
                  pkt, buf, tx, env, cpc, cloc, ret, wloc, phase,
                  rawpx, medpx, outpx, image, stream >>

\* One pixel: a worker between median5x5 and flywheel on a frame after the
\* first, with any values of the pixel and f0 at 0.1, 0.2, ..., 0.9.
InitGain ==
  /\ StartedAt(2, 1, "px_flywheel")
  /\ dkind = "valid"
  /\ startlim = 1 /\ pktlim = 1 /\ scenes = Scenes /\ Wired
  /\ feed = {<< 0, 0 >>} /\ f0 \in 1 .. 9
  /\ rawpx = 0 /\ medpx \in PxVals /\ avgpx \in PxVals
  /\ varpx \in VarVals /\ outpx = 0
  /\ NoImage /\ NoStream

NextGain == \E w \in Workers : PixelFlywheel(w) \/ PixelReformat(w)

SpecGain == InitGain /\ [][NextGain]_vars

\* One pixel with the default f0: every median and every mean a byte can
\* hold, and variances from none to the largest.
InitStep ==
  /\ StartedAt(2, 1, "px_flywheel")
  /\ dkind = "valid"
  /\ startlim = 1 /\ pktlim = 1 /\ scenes = Scenes /\ Wired
  /\ feed = {<< 0, 0 >>} /\ f0 = DefaultF0
  /\ rawpx = 0 /\ medpx \in 0 .. 255 /\ avgpx \in 0 .. 255
  /\ varpx \in VarVals \cup {128} /\ outpx = 0
  /\ NoImage /\ NoStream

SpecStep == InitStep /\ [][NextGain]_vars

\* The worker thread alone, after a Start that succeeded.
NextAuto == \E w \in Workers : main_loop(w)

SpecAuto == InitAuto /\ [][NextAuto]_vars

\* The temporal filter: the worker thread alone, the frames giving the pixel
\* followed a steady or a changing value, under scenes that make auto-range
\* raise, keep and lower the depth step, with f0 at 0 and at its default.
FilterScenes == {Scene(0, 150), Scene(2250, 254), Scene(0, 40)}

Feeds ==
  { {<< 0, 0 >>}, {<< 100, 100 >>}, {<< 255, 255 >>}, {<< 255, 100 >>},
    {<< 100, 100 >>, << 100, 110 >>}, {<< 0, 0 >>, << 255, 255 >>} }

InitFilter ==
  /\ Started /\ dkind = "valid"
  /\ startlim = 1 /\ pktlim = AutoPkt /\ scenes = FilterScenes
  /\ feed \in Feeds /\ f0 \in {0, DefaultF0} /\ Wired

NextFilter == \E w \in Workers : main_loop(w)

SpecFilter == InitFilter /\ [][NextFilter]_vars

\* Two worker threads: the state after Start has succeeded twice with no Done
\* in between (the second pthread_create leaves the first thread running),
\* before either thread has taken a step, in front of a saturated scene.
StartedTwice ==
  /\ ser = 0 /\ ok = 1 /\ run = 1 /\ frame = 0
  /\ hoover = 2
  /\ owner = "none"
  /\ fill = "d0" /\ done = NULL /\ lock = NULL /\ fresh = FreshInit
  /\ unit = 2 /\ pend = 2
  /\ pkt = 0
  /\ buf = [b \in Bufs |-> [tag |-> 0, full |-> TRUE]]
  /\ tx = << "AT+DISP=3\r", "AT+UNIT=2\r" >>
  /\ npkt = 0 /\ nstart = 2
  /\ cpc = "idle" /\ blk = 0 /\ wait = 0 /\ creg = NULL
  /\ ret = [f |-> "none", v |-> 0]
  /\ phase = "running"
  /\ wpc = [w \in Workers |-> "loop"]
  /\ wd = [w \in Workers |-> NULL]
  /\ wreg = [w \in Workers |-> 0]
  /\ wnx = [w \in Workers |-> NULL]
  /\ goal = [w \in Workers |-> 0]

InitTwin ==
  /\ StartedTwice /\ dkind = "valid"
  /\ NoPixel /\ NoImage /\ NoStream
  /\ startlim = 2 /\ pktlim = MaxPkt
  /\ scenes = {Scene(2250, 100)} /\ Tuned /\ Wired

NextTwin == \E w \in Workers : main_loop(w)

SpecTwin == InitTwin /\ [][NextTwin]_vars

\* Re-synchronisation: the worker thread alone in front of a saturated
\* scene, every packet behind the same string: an answer, or at most MaxJunk
\* bytes, each a byte of the sentinel or of an answer.
RECURSIVE Junk(_)
Junk(n) ==
  IF n = 0 THEN { << >> }
  ELSE Junk(n - 1) \cup
       { Append(j, c) : j \in Junk(n - 1), c \in {0, 255, 32, 39, 79} }

Streams == { j \o Sentinel : j \in Junk(MaxJunk) \cup {Ack} }

InitSync ==
  /\ Started /\ dkind = "valid"
  /\ startlim = 1 /\ pktlim = MaxPkt
  /\ scenes \in { {Scene(2250, 100)}, {Scene(0, 150)} }
  /\ f0 = DefaultF0 /\ feed = {<< 100, 100 >>}
  /\ wires \in { {b} : b \in Streams }

NextSync == \E w \in Workers : main_loop(w)

SpecSync == InitSync /\ [][NextSync]_vars

\* Framing: the worker thread alone, reading byte by byte from wires that
\* carry FramePkts packets of PktLen or of PktLen + 4 bytes back to back
\* (whole, or cut after the second byte of a sentinel or inside a packet), or
\* bytes that never make a sentinel, one, two or four to a round of sync.
Packets(per, c) == Wire(Sentinel, c, per, FramePkts * per)

Lines ==
  { Packets(per, c) : per \in {PktLen, PktLen + 4}, c \in {0, 65} }
    \cup { Wire(Sentinel, 65, PktLen + 4, PktLen + 4 + cut) :
             cut \in {2, 5000} }
    \cup { Wire(<< >>, 65, 1, Endless), Wire(<< 0 >>, 65, 2, Endless),
           Wire(<< 0, 255, 32 >>, 65, 4, Endless), Wire(<< >>, 65, 1, 7) }

InitFrame ==
  /\ StartedAt(2, 0, "loop") /\ dkind = "valid"
  /\ NoPixel /\ NoImage
  /\ startlim = 1 /\ pktlim = FramePkts /\ scenes = Scenes
  /\ Tuned /\ Wired
  /\ wire \in Lines /\ at = 0
  /\ wstart = [w \in Workers |-> 0] /\ wn = [w \in Workers |-> 0]

NextFrame ==
  \E w \in Workers :
    \/ MainLoop(w) \/ MainExit(w)
    \/ SyncEnter(w) \/ SyncRound(w)
    \/ FillEnter(w) \/ FillRead(w)
    \/ AutoRange(w) \/ AutoSend(w) \/ flywheel(w)
    \/ ReformatBegin(w) \/ ReformatEnd(w)
    \/ swap_bufs(w)

SpecFrame == InitFrame /\ [][NextFrame]_vars

\* ------------------------------------------------------------------ claims

\* The consumer thread is between calls or inside Range, with a driver that
\* one Start has set up.
RangeSteps == {"r_poll", "r_lock", "r_load", "r_store", "r_fresh",
               "r_unlock", "r_ret"}
DoneSteps == {"d_join", "d_ser", "d_disp", "d_close", "d_ok"}

\* A call of Range is returning buffer b to its caller.
RangeGives(b) == cpc = "return" /\ ret.f = "Range" /\ ret.v = b
RangeGivesFrame == cpc = "return" /\ ret.f = "Range" /\ ret.v # NULL

\* C1: while the driver runs, the fill role and the lock role are never the
\* same buffer, and the buffer a worker is writing in reformat is never the
\* one Range has handed to the consumer.
C1_FillNeverLock ==
  /\ fill # NULL => fill # lock
  /\ \A w \in Workers : wpc[w] = "writing" => wd[w] # lock

\* C2: the buffer Range stores in lock and returns is the buffer of the most
\* recent publish (the value of done while Range holds the mutex), and it
\* holds the whole output of one finished reformat pass: no worker is
\* writing it when Range returns it.
C2_ReturnsPublished ==
  /\ cpc \in {"r_fresh", "r_unlock"} => lock = done
  /\ RangeGivesFrame =>
       /\ buf[ret.v].full
       /\ \A w \in Workers : wpc[w] = "writing" => wd[w] # ret.v

\* C3: when swap_bufs has chosen the next fill buffer, done is the buffer
\* just written, and fill is neither done nor lock.
C3_AfterPublish ==
  \A w \in Workers :
    wpc[w] = "sw_unlock" =>
      /\ done # NULL /\ buf[done].tag = pkt
      /\ fill \in Bufs \ {done, lock}

\* C4: Range gives no frame until three frames have been published after
\* Start: a buffer it returns holds the third packet or a later one, and
\* fresh is positive only when three packets have been reformatted.
C4_FirstFramesDropped ==
  /\ RangeGivesFrame => buf[ret.v].tag >= 3
  /\ (cpc \in RangeSteps /\ fresh > 0) => npkt >= 3

\* C4 happens: Range returns the buffer holding the third packet.
C4_Witness == RangeGivesFrame /\ buf[ret.v].tag = 3

\* C5: once the worker thread of the session has ended, ok is 0 whenever
\* the consumer is between calls, also when the worker ended while Start
\* was still running.
C5_DeadWorkerSeen ==
  (cpc = "idle" /\ wpc[1] = "exited") => ok = 0

\* C6: while the consumer has not started the driver (nothing started yet,
\* the last Start failed, or Done has been called), a call of Range never
\* polls or sleeps, and returns NULL.
C6_NotRunningNull ==
  phase \in {"closed", "failed"} =>
    /\ cpc = "idle" => ok <= 0
    /\ cpc \notin RangeSteps
    /\ (cpc = "return" /\ ret.f = "Range") => (ret.v = NULL /\ wait = 0)

\* C6 happens: a blocking Range call made after a session that Done has
\* stopped returns NULL.
C6_Witness ==
  /\ phase = "closed" /\ wpc[1] # "none"
  /\ cpc = "return" /\ ret.f = "Range" /\ blk = 1 /\ ret.v = NULL

\* C7 as stated: a blocking Range call sleeps at most 500 times.
C7_AtMost500 == wait <= WaitLimit

\* C7: a non-blocking Range call never sleeps; a blocking call sleeps at
\* most 501 times (it polls fresh at most 502 times), and returns NULL
\* only without having slept (driver not running) or after the 501 sleeps.
C7_Polling ==
  /\ wait <= WaitLimit + 1
  /\ blk <= 0 => wait = 0
  /\ (RangeGives(NULL) /\ blk > 0) => wait \in {0, WaitLimit + 1}

\* C7 happens: a blocking call gives up after its 501st sleep.
C7_Witness == RangeGives(NULL) /\ blk > 0 /\ wait = WaitLimit + 1

\* C8: a call of Start that launched the worker has written AT+DISP=3 and
\* then AT+UNIT=2 and returns 1; a call that launched none returns a value
\* <= 0 and has written nothing.
C8_StartReturns ==
  (cpc = "return" /\ ret.f = "Start") =>
    IF wpc[1] # "none"
      THEN /\ ret.v = 1
           /\ Len(tx) >= 2
           /\ tx[1] = "AT+DISP=3\r" /\ tx[2] = "AT+UNIT=2\r"
      ELSE ret.v <= 0 /\ tx = << >>

\* In the port's log, command a was written before command b.
WrittenBefore(a, b) ==
  \E i \in 1 .. Len(tx) : \E j \in 1 .. Len(tx) :
    i < j /\ tx[i] = a /\ tx[j] = b

\* Done, called on a running driver, is at a step where run is already
\* cleared; the port is open until both commands are written, AT+UNIT=0
\* first and AT+DISP=1 second, and closed after.
DoneInOrder ==
  phase = "stopping" =>
    /\ cpc \in DoneSteps
    /\ run = 0
    /\ cpc \in {"d_join", "d_ser", "d_disp", "d_close"} => ser >= 0
    /\ cpc = "d_disp" => \E i \in 1 .. Len(tx) : tx[i] = "AT+UNIT=0\r"
    /\ cpc = "d_close" => WrittenBefore("AT+UNIT=0\r", "AT+DISP=1\r")
    /\ cpc = "d_ok" => ser = -1

\* C9: Done called on a running driver clears run before anything is
\* written, writes AT+UNIT=0 and then AT+DISP=1 to the open port, and only
\* then closes it; its last step leaves ok = -1 with the descriptor invalid.
C9_DoneOrder ==
  [][ /\ DoneInOrder'
      /\ (DoneOk /\ phase = "stopping") =>
           (ok' = -1 /\ ser' = -1 /\ run' = 0) ]_vars

\* C9 happens: both commands are in the log and the port is about to close.
C9_Witness ==
  /\ phase = "stopping" /\ cpc = "d_close"
  /\ WrittenBefore("AT+UNIT=0\r", "AT+DISP=1\r")

\* Done, called on a closed driver, is at a step that neither joins, nor
\* writes, nor closes.
DoneIdle ==
  (phase = "closed" /\ cpc \in DoneSteps) =>
    /\ cpc \in {"d_ser", "d_ok"}
    /\ run = 0 /\ ser = -1 /\ tx = << >>

\* C10: Done called on a driver that is closed (never started, or already
\* stopped by Done) joins nothing, writes nothing and closes nothing, and
\* returns with run = 0, the descriptor invalid and ok = -1, as the first
\* Done left them.
C10_DoneIdempotent ==
  [][ /\ DoneIdle'
      /\ (DoneOk /\ phase = "closed") =>
           (ok' = -1 /\ ser' = -1 /\ run' = 0 /\ tx' = tx) ]_vars

\* C10 happens: a second Done, after a session, is about to return.
C10_Witness ==
  phase = "closed" /\ cpc = "d_ok" /\ wpc[1] # "none" /\ ok < 0

\* Worker thread w is inside the loop of main_loop.
InLoop(w) == wpc[w] \notin {"none", "exit", "exited"}

\* C11: whatever Start and Done calls the consumer makes, at most one
\* worker thread is inside the acquisition loop.
C11_OneWorker == Cardinality({w \in Workers : InLoop(w)}) <= 1

\* C12: once Start has launched the worker, unit and pend are in 1 .. 9
\* whatever the scenes, the auto-range requests and the re-scales.
C12_UnitInRange ==
  (\E w \in Workers : wpc[w] # "none") => (unit \in 1 .. 9 /\ pend \in 1 .. 9)

\* C12 happens: at the coarsest step a dark scene requests the finest one.
C12_Witness == unit = 9 /\ pend = 1

\* The pixel that reformat has just written is masked.
Masked == rawpx = 255 \/ avgpx = 255 \/ varpx > vlim

\* C13: the pixel reformat writes is 65535 exactly when the raw sample is
\* 255, or the mean is 255, or the variance is above vlim; otherwise it is
\* 4 * unit * mean.
C13_ReformatPixel ==
  wpc[1] = "px_done" =>
    /\ outpx = 65535 <=> Masked
    /\ ~Masked => outpx = 4 * unit * avgpx

\* C13 happens: a pixel is masked by its variance alone.
C13_Witness ==
  /\ wpc[1] = "px_done" /\ outpx = 65535
  /\ rawpx < 255 /\ avgpx < 255 /\ varpx = vlim + 1

\* C14: every entry of the table for the depth step in force (each of
\* 1 .. 9 in some run) is 4 * u * p, untruncated, and below 65535, so a
\* pixel that is not masked never holds the invalid value.
C14_LutExact ==
  /\ \A p \in 0 .. 255 :
       norm(unit, p) = 4 * unit * p /\ norm(unit, p) < 65535
  /\ (wpc[1] = "px_done" /\ ~Masked) => outpx = norm(unit, avgpx)
  /\ (wpc[1] = "px_done" /\ ~Masked) => outpx < 65535

\* C14 happens: the largest unmasked value, 4 * 9 * 254.
C14_Witness ==
  wpc[1] = "px_done" /\ ~Masked /\ unit = 9 /\ avgpx = 254 /\ outpx = 9144

\* The 25 samples around pixel (x, y), coordinates clamped to the image.
Box == (-2 .. 2) \X (-2 .. 2)
ClampTo(n, top) == IF n < 0 THEN 0 ELSE IF n > top THEN top ELSE n
Around(img, x, y, d) ==
  img.pel[ClampTo(y + d[2], img.hgt - 1) * img.wid
          + ClampTo(x + d[1], img.wid - 1)]

\* The 13th smallest of those samples.
DirectMedian(img, x, y) ==
  CHOOSE v \in {Around(img, x, y, d) : d \in Box} :
    /\ Cardinality({d \in Box : Around(img, x, y, d) < v}) < 13
    /\ Cardinality({d \in Box : Around(img, x, y, d) <= v}) >= 13

\* C15: the pixel median5x5 has just stored is the 13th smallest of the 25
\* clamped samples around it, at every pixel of every image, borders
\* included.
C15_MedianIsDirect ==
  wpc[1] = "med_shift" =>
    medimg.pel[my * rawimg.wid + mx] = DirectMedian(rawimg, mx, my)

\* C15 happens: away from the borders, the box has just moved with the
\* cached low bins replacing bot twice, and the median is none of 0, bot.
C15_Witness ==
  /\ wpc[1] = "med_shift"
  /\ mx >= 3 /\ my = 2 /\ rawimg.hgt > 4
  /\ bot > 1
  /\ medimg.pel[my * rawimg.wid + mx] > bot

\* C16: when the raw image is 0 everywhere except one pixel of 255, wherever
\* that pixel is (corners and edges included), every pixel of the median
\* image is 0 once median5x5 has finished.
C16_ImpulseRemoved ==
  (rawimg \in Impulses /\ wpc[1] = "med_done")
    => \A i \in DOMAIN medimg.pel : medimg.pel[i] = 0

C16_Witness ==
  /\ rawimg \in Impulses
  /\ rawimg.pel[0] = 255
  /\ wpc[1] = "med_done"
  /\ my = rawimg.hgt

\* C17: if the median image is the same on every frame from the first one on
\* and f0 = 0, then after every temporal-filter step the mean p is the first
\* frame's median and the variance v is 0.
Medians == {px[2] : px \in feed}

C17_SteadyMean ==
  (f0 = 0 /\ Cardinality(Medians) = 1 /\ wpc[1] = "reformat")
    => (avgpx = medpx /\ varpx = 0)

\* C17 as the code has it: the same, as long as auto-range has requested no
\* change of the depth step since Start (a re-scale to another step also
\* multiplies the stored mean, which the filter with f0 = 0 never corrects).
C17_SteadyMeanSameStep ==
  (f0 = 0 /\ Cardinality(Medians) = 1 /\ wpc[1] = "reformat"
     /\ Len(tx) = 2)
    => (avgpx = medpx /\ varpx = 0)

C17_Witness ==
  /\ f0 = 0 /\ feed = {<< 100, 100 >>} /\ wpc[1] = "reformat"
  /\ frame = 4 /\ Len(tx) = 2
  /\ avgpx = 100 /\ varpx = 0

\* The goal of auto_range before the test of "miss": the percentile bin
\* scaled to ihi, rounded and kept in 1 .. 9.
PercentileGoal(u, bulk) ==
  LET g == (2 * u * bulk + ihi) \div (2 * ihi)
  IN  IF g <= 1 THEN 1 ELSE IF g < 9 THEN g ELSE 9

\* Worker 1 runs auto_range on the only scene sc there is, past the warm-up,
\* with no command outstanding.
RangingOn(sc) ==
  /\ scenes = {sc}
  /\ wpc[1] = "auto_range" /\ wpc'[1] # "auto_range"
  /\ frame >= WarmFrames /\ pend = unit

\* C18: when auto-range runs past the warm-up with no command outstanding,
\* more than sat percent of the region saturated and unit < 9, it requests a
\* step above unit (unit + 1 when the percentile goal is not above unit) and
\* transmits AT+UNIT=<that step>\r, which becomes pend; with unit = 2 and 90
\* percent of the region at 255 the command is AT+UNIT=3\r.
C18_Coarsen ==
  [][ /\ \A sc \in scenes :
            (RangingOn(sc) /\ Miss(sc) > sat /\ unit < 9)
              => /\ wpc'[1] = "auto_send"
                 /\ goal'[1] > unit
                 /\ (PercentileGoal(unit, Bulk(sc)) <= unit
                       => goal'[1] = unit + 1)
                 /\ (unit = 2 /\ 10 * sc.n255 = 9 * cw * ch
                       => goal'[1] = 3)
      /\ (wpc[1] = "auto_send" /\ wpc'[1] # "auto_send")
            => /\ pend' = goal[1]
               /\ tx' = Append(tx, UnitCmd(goal[1]))
               /\ (goal[1] = 3 => tx'[Len(tx')] = "AT+UNIT=3\r") ]_vars

\* C18 happens: from unit = 2, with 90 percent of the region at 255, the
\* command AT+UNIT=3 has been sent and the worker has gone on.
C18_Witness ==
  /\ \E sc \in scenes : scenes = {sc} /\ 10 * sc.n255 = 9 * cw * ch
  /\ wpc[1] = "flywheel" /\ frame = WarmFrames
  /\ unit = 2 /\ pend = 3
  /\ tx = << "AT+DISP=3\r", "AT+UNIT=2\r", "AT+UNIT=3\r" >>

\* C19: a command AT+UNIT=n is written only while pend = unit (none is
\* outstanding), for a goal other than unit, with n the new pend in 1 .. 9;
\* so no second command is written before the re-scale that makes
\* unit = pend again.
C19_OneOutstanding ==
  [][ tx' # tx => /\ pend = unit
                  /\ pend' # unit
                  /\ pend' \in 1 .. 9
                  /\ tx' = Append(tx, UnitCmd(pend')) ]_vars

\* Worker 1 returns from sync with 1.
SyncStep == wpc[1] = "sync" /\ wpc'[1] = "fill_raw"

\* The step re-scales: mean and variance are multiplied and unit becomes
\* pend.
Rescaling ==
  /\ unit' = pend /\ pend' = pend
  /\ avgpx' = Rescaled((unit * 256) \div pend, avgpx) % 256
  /\ varpx' = Rescaled((unit * unit * 256) \div (pend * pend), varpx) % 256

\* C20: a successful sync re-scales exactly when it has read some byte that
\* is not one of the four bytes of the sentinel it matched and frame > 2;
\* the re-scale is part of sync, so unit = pend before the median, the
\* temporal filter and reformat of that frame run, and no other step changes
\* unit.
C20_RescaleInSync ==
  [][ /\ \A b \in wires :
            (wires = {b} /\ SyncStep)
              => IF sync(b).used > 4 /\ frame > 2
                   THEN Rescaling /\ unit' = pend'
                   ELSE UNCHANGED << unit, pend, avgpx, varpx >>
      /\ unit' # unit => SyncStep ]_vars

\* C20 happens: the answer to AT+UNIT=3 came before the fourth packet, and
\* the step is 3 and the mean re-scaled from 100 to 66 before the packet is
\* read.
C20_Witness ==
  /\ wires = {Ack \o Sentinel}
  /\ wpc[1] = "fill_raw" /\ frame = 3
  /\ unit = 3 /\ pend = 3
  /\ avgpx = 66

\* C21: the re-scaler stores min(255, (fp * p + 128) >> 8) for the mean and
\* min(255, (fv * v + 128) >> 8) for the variance, fp = (unit << 8) / pend
\* and fv = (unit * unit << 8) / (pend * pend): a result above 255 is stored
\* as 255, never as its low byte.
Saturated(val) == IF val > 255 THEN 255 ELSE val

C21_RescaleSaturates ==
  [][ unit' # unit =>
        /\ avgpx' = Saturated(Rescaled((unit * 256) \div pend, avgpx))
        /\ varpx' = Saturated(Rescaled((unit * unit * 256)
                                         \div (pend * pend), varpx)) ]_vars

\* C22: the mean and the variance are initialised (mean = median,
\* variance = 0) by the first frame after the two that Range never returns:
\* when the temporal filter has run on the third frame, whose buffer is the
\* first that Range gives out, the mean is that frame's median and the
\* variance 0, whatever the two frames before it were.
C22_InitAfterDrop ==
  (wpc[1] = "reformat" /\ frame = 0 - FreshInit)
    => (avgpx = medpx /\ varpx = 0)

\* C23: a Start that succeeds, also one that follows Done on the same
\* object, launches its worker with the frame counter at 0 (so the first
\* frame initialises the temporal filter, auto-range skips two frames and
\* stray bytes before the first sentinels do not re-scale). Stated for a
\* Start made while no earlier worker is in its loop.
C23_FrameZeroAtStart ==
  (cpc = "s_run" /\ \A w \in Workers : ~InLoop(w)) => frame = 0

\* C24: a failure of sync (its limit passed, or a read that returned no
\* byte) or a read of fill_raw that returns no byte takes the worker to the
\* exit of its loop with done, fill, lock, fresh and frame as the previous
\* publish left them, and they stay so while it exits; a short read of
\* fill_raw is followed by another read; and the count of bytes of a packet
\* never passes PktLen.
SyncFails(w) ==
  wpc[w] = "sync_loop"
    /\ (wstart[w] > SyncLimit \/ SyncRead(wire, at).out = "lost")

FillFails(w) == wpc[w] = "fill_loop" /\ wire.len - at <= 0

C24_FailedFrameDropped ==
  [][ /\ wn'[1] <= PktLen
      /\ (SyncFails(1) \/ FillFails(1))
           => (wpc'[1] = "exit" /\ UNCHANGED << rotor, frame, image >>)
      /\ wpc[1] = "exit"
           => (wpc'[1] = "exited" /\ UNCHANGED << rotor, frame, image >>)
      /\ wpc[1] = "exited" => UNCHANGED << rotor, frame, image >>
      /\ (wpc[1] = "fill_loop" /\ wn'[1] > wn[1] /\ wn'[1] < PktLen)
           => wpc'[1] = "fill_loop" ]_vars

\* The worker has left its loop after a published frame, on a read that
\* returned no byte in the middle of a packet.
C24_CutPacket ==
  wpc[1] = "exited" /\ frame >= 1 /\ wn[1] > 0 /\ wn[1] < PktLen

\* C25: the limit of sync counts the bytes it has consumed: in the first
\* sync of a stream, which starts at byte 0, no round is entered with more
\* than SyncLimit bytes (and the at most four of the round that passed the
\* limit) consumed without a sentinel.
C25_LimitCountsBytes ==
  (npkt = 0 /\ wpc[1] = "sync_loop") => at <= SyncLimit + 4

\* C26: on a wire of back-to-back packets of PktLen bytes every frame
\* consumes PktLen bytes, so that each sync starts on a packet boundary and
\* finds the sentinel in its first round.
C26_OneFramePerPacket ==
  (wire.head = Sentinel /\ wire.per = PktLen) =>
     /\ (wpc[1] \in {"sync", "auto_range"} => at = PktLen * npkt)
     /\ (wpc[1] = "fill_raw" => wstart[1] = 1)

\* C27: a worker that has left its loop on a transport error, with no call
\* of Done, has cleared run.
C27_ExitClearsRun == wpc[1] = "exited" => run = 0

\* C28: once run is cleared and the first worker comes to the test of its
\* loop, it starts no further iteration: it never enters sync again (and so
\* publishes nothing after the iteration that was in progress).
C28_StopsAfterDone ==
  []((run = 0 /\ wpc[1] = "loop") => [](wpc[1] # "sync"))

\* C29: while a worker is running, a thread that is about to read or write
\* fresh, done, fill or lock holds the mutex: the consumer in Range (the test
\* of fresh, "lock = done", "fresh = 0", "return lock") and in Start (the
\* resets of the four), a worker in reformat (the read of fill) and in
\* swap_bufs.
ConsumerAtRotor ==
  cpc \in {"r_poll", "r_load", "r_store", "r_fresh", "r_ret",
           "s_fill", "s_null", "s_fresh"}

WorkerAtRotor(w) ==
  wpc[w] \in {"reformat", "sw_done", "sw_load", "sw_fresh", "sw_pick",
              "sw_fill"}

C29_RotorUnderMutex ==
  (\E w \in Workers : Alive(w)) =>
     /\ ConsumerAtRotor => owner = "main"
     /\ \A w \in Workers : WorkerAtRotor(w) => owner = "absorb"

\* C30: at every pixel flywheel filters, with f0 in (0, 1) and the default
\* noise floor, vm << 8 stays within 32 bits (vm < 2^23), the divisor
\* vm + mn is not 0, and the gain k lies in 0 .. 256.
C30_GainInRange ==
  [][ (wpc[1] = "px_flywheel" /\ wpc'[1] # wpc[1]) =>
        LET vm == Vm(medpx, avgpx, varpx, Fi(f0))
        IN  /\ vm >= 0 /\ vm < 8388608
            /\ vm + Mn # 0
            /\ Gain(vm) >= 0 /\ Gain(vm) <= 256 ]_vars

\* Serial number of the frame last published (0: none), and the states in
\* which neither a publish nor a consume is half done.
Published == IF done = NULL THEN 0 ELSE buf[done].tag

Settled ==
  /\ cpc \notin {"r_fresh"}
  /\ \A w \in Workers : wpc[w] \notin {"sw_load", "sw_fresh"}

\* C31: in a session, fresh is positive exactly when the warm-up frames are
\* past and a frame has been published since the last Range that returned
\* one; the buffer a Range is about to return is a published one, differs
\* from the buffer the previous successful Range returned, and holds a later
\* frame.
C31_FreshMeansNew ==
  /\ Settled =>
       (fresh > 0 <=> IF lock = NULL THEN Published > WarmFrames
                                     ELSE Published > buf[lock].tag)
  /\ cpc = "r_store" =>
       /\ creg # NULL /\ creg # lock
       /\ lock # NULL => buf[creg].tag > buf[lock].tag

\* Positions at which an occurrence of the sentinel ends in the bytes b.
SentinelEnds(b) ==
  { i \in 4 .. Len(b) : SubSeq(b, i - 3, i) = Sentinel }

\* C32: when the bytes that arrive hold the sentinel, the sync that the
\* worker is about to run finds it and has consumed the bytes exactly up to
\* the end of its first occurrence, whatever precedes it.
C32_FirstSentinel ==
  wpc[1] = "sync" =>
    \A b \in wires :
      SentinelEnds(b) # {} =>
        /\ sync(b).found
        /\ \A i \in SentinelEnds(b) : sync(b).used <= i
        /\ sync(b).used \in SentinelEnds(b)

\* C33: in the log of the open port no command AT+UNIT=n of auto_range
\* (n in 1 .. 9) comes after the AT+UNIT=0 that Done has written.
C33_NoUnitAfterDone ==
  \A i \in 1 .. Len(tx) : \A j \in 1 .. Len(tx) :
    (i < j /\ tx[i] = "AT+UNIT=0\r") =>
      tx[j] \notin {UnitCmd(n) : n \in 1 .. 9}

\* C34: the step auto_range is about to command on a scene with more than
\* sat percent of its region saturated is never below unit, whatever unit
\* is.
C34_NeverFinerWhenSaturated ==
  wpc[1] = "auto_send" =>
    \A sc \in scenes :
      (Miss(sc) > sat /\ goal[1] = AutoGoal(unit, Miss(sc), Bulk(sc)))
        => goal[1] >= unit

\* C35: a sync that calls depth_step while no command is outstanding
\* (pend = unit) leaves the mean, the variance and unit as they were; the
\* tables depth_step builds for pend = unit map every byte to itself.
C35_IdleRescale ==
  [][ /\ \A u \in 1 .. 9 : \A i \in 0 .. 255 :
            /\ Rescaled((u * 256) \div u, i) % 256 = i
            /\ Rescaled((u * u * 256) \div (u * u), i) % 256 = i
      /\ \A b \in wires :
            (wires = {b} /\ SyncStep /\ sync(b).start > 1
               /\ frame > AckFrames /\ pend = unit)
              => UNCHANGED << avgpx, varpx, unit >> ]_vars

\* C35 happens: the fourth packet came behind four stray bytes while the
\* step requested was the step in force, and mean and step are unchanged.
C35_Witness ==
  /\ wires = {Ack \o Sentinel} /\ scenes = {Scene(0, 150)}
  /\ wpc[1] = "fill_raw" /\ frame = 3
  /\ unit = 2 /\ pend = 2 /\ avgpx = 100
  /\ tx = << "AT+DISP=3\r", "AT+UNIT=2\r" >>

\* The histogram after the old left column is subtracted in the shift that
\* follows the scan at pixel mx (its cnt is the number of times bot was
\* replaced from "lowest"), and the number of entries of "lowest" that scan
\* wrote.
ShiftOut ==
  SubColumn(rawimg, my, IF mx - 2 <= 0 THEN 0 ELSE mx - 2, lowest, 1,
            Histo(vals, bot, 0))

ScanWrote ==
  LET met == Cardinality({x \in Filled(vals, bot) : x <= ScanTop(vals, bot)})
  IN  IF met < 6 THEN met ELSE 6

\* C36: at the start of every scan of median5x5 no bin is negative, the
\* bins hold 25 samples in all and bot is at or below every bin that holds
\* one; and the shift that follows a scan replaces bot only by entries
\* lowest[1], lowest[2], ... that this scan has written.
C36_HistogramSound ==
  /\ (wpc[1] = "med_scan" /\ mx < rawimg.wid) =>
       /\ \A hi \in 0 .. 255 : vals[hi] >= 0 /\ (vals[hi] > 0 => bot <= hi)
       /\ SumBins(vals, {hi \in 0 .. 255 : vals[hi] # 0}) = 25
  /\ (wpc[1] = "med_shift" /\ mx < rawimg.wid - 1) =>
       ShiftOut.cnt + 1 <= ScanWrote

\* C36 happens: a shift is about to replace bot five times, up to the last
\* entry of "lowest".
C36_Witness ==
  wpc[1] = "med_shift" /\ mx < rawimg.wid - 1 /\ ShiftOut.cnt = 5

\* C37: with the default parameters a step of the temporal filter leaves
\* the mean between its old value and the median (both included), and the
\* variance in 0 .. 255, whatever bytes the median, the mean and the
\* variance were.
C37_NoOvershoot ==
  [][ (wpc[1] = "px_flywheel" /\ wpc'[1] = "px_reformat"
         /\ f0 = DefaultF0 /\ nv = 64) =>
        /\ avgpx' >= (IF avgpx < medpx THEN avgpx ELSE medpx)
        /\ avgpx' <= (IF avgpx < medpx THEN medpx ELSE avgpx)
        /\ varpx' \in 0 .. 255 ]_vars

\* C37 happens: the mean has moved part of the way to a median far from
\* it, and the variance has risen.
C37_Witness ==
  /\ wpc[1] = "px_reformat" /\ f0 = DefaultF0
  /\ medpx = 255 /\ avgpx > 100 /\ avgpx < 255 /\ varpx > 32

\* C38: a thread that has come to pthread_mutex_lock gets the mutex: the
\* worker in swap_bufs goes on to "done = fill", the consumer in Range to
\* "lock = done", however the other thread's calls interleave.
C38_MutexGranted ==
  /\ (wpc[1] = "sw_lock") ~> (wpc[1] = "sw_done")
  /\ (cpc = "r_lock") ~> (cpc = "r_load")

\* C39: auto_range writes its command only with frame >= 2, so a sync that
\* returns while the command is outstanding (pend # unit) runs with
\* frame > 2, and when it has read stray bytes before the sentinel it makes
\* unit = pend.
C39_AckApplied ==
  [][ /\ (tx' # tx /\ \E w \in Workers : wpc[w] = "auto_send")
           => frame >= WarmFrames
      /\ \A w \in Workers :
           (wpc[w] = "sync" /\ wpc'[w] = "fill_raw" /\ pend # unit)
             => /\ frame > AckFrames
                /\ \A b \in wires :
                     (wires = {b} /\ sync(b).used > 4) => unit' = pend ]_vars

====
